---------------------------- MODULE Spec2Model ----------------------------
(***************************************************************************)
(* ristretto255 core: the constant-time field primitives and the           *)
(* square-root-ratio solver of internal/edwards25519/fe.go, and            *)
(* Element.Equal, Element.FromUniformBytes and mapToPoint of the           *)
(* ristretto255 package.                                                   *)
(*                                                                         *)
(* Scale.  TLC's integers are 32 bits wide, so the field of 2^255 - 19     *)
(* elements, held in five 51-bit limbs, is scaled to the field of          *)
(* 2^5 - 19 = 13 elements, held in five 1-bit limbs.  13 is the one other  *)
(* prime q = 5 (mod 8), q > 5, with (q - 1) | (2^255 - 20): exactly for    *)
(* such q the addition chain of fePow22523, run step for step as written   *)
(* (it computes z^(2^252 - 3)), computes z^((q - 5)/8), which is what      *)
(* FeSqrtRatio needs.  The 64-bit machine word is scaled to WordBits bits. *)
(* The curve constants are the scaled field's solutions of the equations   *)
(* that define the source's decimal constants.                             *)
(***************************************************************************)
EXTENDS Integers, Sequences, FiniteSets, TLC

\* ------------------------------------------------------------------ scale
\* Bits of the machine word that holds one limb (uint64 in the source).
WordBits == 4
\* Largest byte value the callers put in bytes 0 and 32 of an input.
MaxByte == 2
\* Largest coordinate scalar a caller rescales a representative by.
MaxScalar == 5

\* Bits per limb (51 in radix51) and limbs per element ([5]uint64).
LimbBits == 1
NLimbs == 5
\* 2^255 - 19, scaled.
P == 2^(NLimbs * LimbBits) - 19
Radix == 2^(NLimbs * LimbBits)
WordMod == 2^WordBits
\* 0xffffffffffffffff, scaled.
AllOnes == WordMod - 1

Limbs == 1..NLimbs
Words == 0..AllOnes

\* ------------------------------------------------------- machine words
RECURSIVE BitAndN(_, _, _)
BitAndN(x, y, n) ==
  IF n = 0 THEN 0
  ELSE (x % 2) * (y % 2) + 2 * BitAndN(x \div 2, y \div 2, n - 1)

RECURSIVE BitOrN(_, _, _)
BitOrN(x, y, n) ==
  IF n = 0 THEN 0
  ELSE (IF (x % 2) + (y % 2) > 0 THEN 1 ELSE 0)
       + 2 * BitOrN(x \div 2, y \div 2, n - 1)

\* x & y, x | y, ^x on words.
And(x, y) == BitAndN(x, y, WordBits)
Or(x, y) == BitOrN(x, y, WordBits)
Not(x) == AllOnes - x

\* ------------------------------------------- field arithmetic kernel
\* A field element is its five limbs; its value is their radix-2^LimbBits sum.
RECURSIVE ValN(_, _)
ValN(a, n) == IF n = 0 THEN 0 ELSE a[n] * 2^(LimbBits * (n - 1)) + ValN(a, n - 1)
Val(a) == ValN(a, NLimbs)

\* The value of a modulo p, in 0..p-1.
Canon(a) == Val(a) % P

\* The kernel's reduction: the part above 2^(5*LimbBits) is folded back times
\* 19 until the value fits the limbs.  The result is bounded, not canonical.
RECURSIVE Carry(_)
Carry(x) == IF x < Radix THEN x ELSE Carry((x % Radix) + 19 * (x \div Radix))

ToLimbs(x) == [i \in Limbs |-> (x \div 2^(LimbBits * (i - 1))) % 2^LimbBits]

\* The reduced representations the kernel returns.
FeReps == {ToLimbs(x) : x \in 0..(Radix - 1)}

FeZero == ToLimbs(0)
FeOne == ToLimbs(1)
FeAdd(a, b) == ToLimbs(Carry(Val(a) + Val(b)))
FeSub(a, b) == ToLimbs(Carry(Val(a) + P * (1 + (Val(b) \div P)) - Val(b)))
FeNeg(a) == FeSub(FeZero, a)
FeMul(a, b) == ToLimbs(Carry(Val(a) * Val(b)))
FeSquare(a) == FeMul(a, a)

\* 32 bytes, little-endian, of the canonical value (which has 5*LimbBits bits).
FeToBytes(a) ==
  [k \in 1..32 |-> IF 8 * (k - 1) < NLimbs * LimbBits
                   THEN (Canon(a) \div 2^(8 * (k - 1))) % 256
                   ELSE 0]

\* 256^n, reduced.
RECURSIVE Pow256(_)
Pow256(n) ==
  IF n = 0 THEN 1
  ELSE IF n % 2 = 0 THEN Carry(Pow256(n \div 2) * Pow256(n \div 2))
  ELSE Carry(256 * Pow256(n - 1))

\* The little-endian integer of bytes lo..hi of buf, bit 255 ignored, reduced
\* as it is read.
RECURSIVE FromLE(_, _, _)
FromLE(buf, lo, hi) ==
  IF lo = hi THEN Carry(IF lo = 32 THEN buf[lo] % 128 ELSE buf[lo])
  ELSE LET mid == (lo + hi) \div 2
       IN Carry(FromLE(buf, lo, mid)
                + Pow256(mid + 1 - lo) * FromLE(buf, mid + 1, hi))
FeFromBytes(buf) == ToLimbs(FromLE(buf, 1, 32))

\* crypto/subtle.ConstantTimeCompare: 1 iff equal length and every byte equal.
ConstantTimeCompare(x, y) ==
  IF Len(x) # Len(y) THEN 0
  ELSE IF \A i \in 1..Len(x) : x[i] = y[i] THEN 1 ELSE 0

\* ------------------------------------------------------------ frames
\* A frame is the storage a running function names (reg: name -> limbs, int:
\* name -> integer) and the sequence of field operations executed so far (ops).
\* Pointer arguments are names, so two arguments may name the same storage.
Frame(regs) == [reg |-> regs, int |-> <<>>, ops |-> <<>>]
\* var x, y FieldElement: zeroed locals.
Locals(st, names) == [st EXCEPT !.reg = [n \in names |-> FeZero] @@ @]
\* Return to the caller: the callee's locals go out of scope.
Return(st, caller) ==
  [reg |-> [n \in DOMAIN caller.reg |-> st.reg[n]], int |-> caller.int, ops |-> st.ops]
\* A kernel call: the result, computed from the operands as they are at the
\* call, is written to out.
Store(st, out, val, name) ==
  [st EXCEPT !.reg = [@ EXCEPT ![out] = val], !.ops = Append(@, name)]
\* x := val for an int variable.
Assign(st, x, val, name) ==
  [st EXCEPT !.int = (x :> val) @@ @,
             !.ops = IF name = "" THEN @ ELSE Append(@, name)]

\* ------------------------------------ internal/edwards25519/fe.go
\* FeEqual without the serialisation: the limbs are compared as they are.
FeEqualLimbs(a, b) == IF a = b THEN 1 ELSE 0

\* FeEqual returns 1 if a and b are equal, and 0 otherwise.
FeEqual(a, b) == ConstantTimeCompare(FeToBytes(a), FeToBytes(b))

\* FeSelect without the broadcast of cond: the mask is cond itself.
FeSelectNoBroadcast(st, out, v, u, cond) ==
  LET b == cond % WordMod
      Sel(s, i) == [s EXCEPT ![out][i] =
                      Or(And(b, s[v][i]), And(Not(b), s[u][i]))]
      r0 == Sel(st.reg, 1)
      r1 == Sel(r0, 2)
      r2 == Sel(r1, 3)
      r3 == Sel(r2, 4)
      r4 == Sel(r3, 5)
  IN [st EXCEPT !.reg = r4, !.ops = Append(@, "FeSelect")]

\* FeSelect sets out to v if cond == 1, and to u if cond == 0; the five limb
\* assignments run in order, each reading the storage as the previous left it.
FeSelect(st, out, v, u, cond) ==
  LET b == (cond * AllOnes) % WordMod
      Sel(s, i) == [s EXCEPT ![out][i] =
                      Or(And(b, s[v][i]), And(Not(b), s[u][i]))]
      r0 == Sel(st.reg, 1)
      r1 == Sel(r0, 2)
      r2 == Sel(r1, 3)
      r3 == Sel(r2, 4)
      r4 == Sel(r3, 5)
  IN [st EXCEPT !.reg = r4, !.ops = Append(@, "FeSelect")]

\* FeIsNegative without the serialisation: the low bit of the low limb.
FeIsNegativeLimb(u) == And(u[1], 1)

\* FeIsNegative returns 1 if u is negative, and 0 otherwise.
FeIsNegative(u) == And(FeToBytes(u)[1] % WordMod, 1)

\* SQRT_M1: the nonnegative square root of -1.
SQRT_M1 == ToLimbs(CHOOSE x \in 0..(P - 1) : (x * x) % P = P - 1 /\ x % 2 = 0)

\* The body of FeAbs(out, u): FeNeg(&neg, u); FeSelect(out, &neg, u, FeIsNegative(u)).
FeAbsCode(out, u) ==
  << <<"FeNeg", "neg", u>>,
     <<"FeIsNegative", "isNegative", u>>,
     <<"FeSelect", out, "neg", u, "isNegative">> >>

\* The body of fePow22523(out, z), statement by statement; <<"for", t, n>> is
\* for i = 1; i < n; i++ { FeSquare(&t, &t) }.
fePow22523Code(out, z) ==
  << <<"FeSquare", "t0", z>>,       <<"for", "t0", 1>>,
     <<"FeSquare", "t1", "t0">>,    <<"for", "t1", 2>>,
     <<"FeMul", "t1", z, "t1">>,
     <<"FeMul", "t0", "t0", "t1">>,
     <<"FeSquare", "t0", "t0">>,    <<"for", "t0", 1>>,
     <<"FeMul", "t0", "t1", "t0">>,
     <<"FeSquare", "t1", "t0">>,    <<"for", "t1", 5>>,
     <<"FeMul", "t0", "t1", "t0">>,
     <<"FeSquare", "t1", "t0">>,    <<"for", "t1", 10>>,
     <<"FeMul", "t1", "t1", "t0">>,
     <<"FeSquare", "t2", "t1">>,    <<"for", "t2", 20>>,
     <<"FeMul", "t1", "t2", "t1">>,
     <<"FeSquare", "t1", "t1">>,    <<"for", "t1", 10>>,
     <<"FeMul", "t0", "t1", "t0">>,
     <<"FeSquare", "t1", "t0">>,    <<"for", "t1", 50>>,
     <<"FeMul", "t1", "t1", "t0">>,
     <<"FeSquare", "t2", "t1">>,    <<"for", "t2", 100>>,
     <<"FeMul", "t1", "t2", "t1">>,
     <<"FeSquare", "t1", "t1">>,    <<"for", "t1", 50>>,
     <<"FeMul", "t0", "t1", "t0">>,
     <<"FeSquare", "t0", "t0">>,    <<"for", "t0", 2>>,
     <<"FeMul", out, "t0", z>> >>

\* The body of FeSqrtRatio(u, v), statement by statement, with the names the
\* source gives its storage: v3, uv3, check and r_prime are a; v7, uv7 and
\* uneg are b; r is c.
FeSqrtRatioCode(u, v) ==
  << <<"FeSquare", "a", v>>,                       \* v^2
     <<"FeMul", "a", "a", v>>,                     \* v^3
     <<"FeSquare", "b", "a">>,                     \* v^6
     <<"FeMul", "b", "b", v>>,                     \* v^7
     <<"FeMul", "a", u, "a">>,                     \* u * v^3
     <<"FeMul", "b", u, "b">>,                     \* u * v^7
     <<"fePow22523", "b", "b">>,
     <<"FeMul", "c", "a", "b">>,                   \* r
     <<"FeMul", "a", "c", "c">>,                   \* r^2
     <<"FeMul", "a", "a", v>>,                     \* check = v * r^2
     <<"FeNeg", "b", u>>,                          \* uneg
     <<"FeEqual", "correct_sign_sqrt", "a", u>>,
     <<"FeEqual", "flipped_sign_sqrt", "a", "b">>,
     <<"FeMul", "b", "b", "SQRT_M1">>,
     <<"FeEqual", "flipped_sign_sqrt_i", "a", "b">>,
     <<"FeMul", "a", "c", "SQRT_M1">>,             \* r_prime
     <<"|", "cond", "flipped_sign_sqrt", "flipped_sign_sqrt_i">>,
     <<"FeSelect", "c", "a", "c", "cond">>,
     <<"FeAbs", "c", "c">>,
     <<"|", "was_square", "correct_sign_sqrt", "flipped_sign_sqrt">> >>

\* Run executes statements lo..hi of code in order; Exec executes one; Call
\* executes a function body on fresh locals and returns to the caller.
RECURSIVE Run(_, _, _, _)
RECURSIVE Exec(_, _)
RECURSIVE FeSqrtRatio(_, _, _)

\* for i = 1; i < n; i++ { FeSquare(&t, &t) }: the body runs for i = 1..n-1.
SquareLoop(st, t, n) ==
  LET body == [i \in {i \in 1..n : i < n} |-> <<"FeSquare", t, t>>]
  IN Run(st, body, 1, Len(body))

Call(st, locals, code) ==
  Return(Run(Locals(st, locals), code, 1, Len(code)), st)

\* fePow22523 is from x/crypto/ed25519/internal/edwards25519.
fePow22523(st, out, z) == Call(st, {"t0", "t1", "t2"}, fePow22523Code(out, z))

\* FeAbs with the operands of its FeSelect exchanged.
FeAbsExchanged(st, out, u) ==
  Call(st, {"neg"},
       << <<"FeNeg", "neg", u>>,
          <<"FeIsNegative", "isNegative", u>>,
          <<"FeSelect", out, u, "neg", "isNegative">> >>)

\* FeAbs sets out to |u|. out and u are allowed to overlap.
FeAbs(st, out, u) == Call(st, {"neg"}, FeAbsCode(out, u))

Exec(st, ins) ==
  CASE ins[1] = "FeMul" ->
         Store(st, ins[2], FeMul(st.reg[ins[3]], st.reg[ins[4]]), "FeMul")
    [] ins[1] = "FeSquare" ->
         Store(st, ins[2], FeSquare(st.reg[ins[3]]), "FeSquare")
    [] ins[1] = "FeNeg" ->
         Store(st, ins[2], FeNeg(st.reg[ins[3]]), "FeNeg")
    [] ins[1] = "FeAdd" ->
         Store(st, ins[2], FeAdd(st.reg[ins[3]], st.reg[ins[4]]), "FeAdd")
    [] ins[1] = "FeSub" ->
         Store(st, ins[2], FeSub(st.reg[ins[3]], st.reg[ins[4]]), "FeSub")
    [] ins[1] = "FeOne" -> Store(st, ins[2], FeOne, "FeOne")
    [] ins[1] = "for" -> SquareLoop(st, ins[2], ins[3])
    [] ins[1] = "FeEqual" ->
         Assign(st, ins[2], FeEqual(st.reg[ins[3]], st.reg[ins[4]]), "FeEqual")
    [] ins[1] = "FeIsNegative" ->
         Assign(st, ins[2], FeIsNegative(st.reg[ins[3]]), "FeIsNegative")
    [] ins[1] = "|" ->
         Assign(st, ins[2], Or(st.int[ins[3]], st.int[ins[4]]), "")
    [] ins[1] = "FeSelect" ->
         FeSelect(st, ins[2], ins[3], ins[4], st.int[ins[5]])
    [] ins[1] = "FeAbs" ->
         LET r == FeAbs(st, ins[2], ins[3])
         IN [r EXCEPT !.int = st.int]
    [] ins[1] = "fePow22523" ->
         LET r == fePow22523(st, ins[2], ins[3])
         IN [r EXCEPT !.int = st.int]
    [] ins[1] = "feSqrtRatio" ->
         \* wasSquare := feSqrtRatio(s, u, v): FeSqrtRatio's r is copied to s.
         LET res == FeSqrtRatio(st, ins[4], ins[5])
         IN [reg |-> [st.reg EXCEPT ![ins[3]] = res.r],
             int |-> (ins[2] :> res.was_square) @@ st.int,
             ops |-> res.ops]

\* The statements are executed in order.  A run is split in four and each part
\* is evaluated before the next is entered, which bounds the evaluation depth.
Run(st, code, lo, hi) ==
  IF lo >= hi THEN (IF lo = hi THEN Exec(st, code[lo]) ELSE st)
  ELSE LET m1 == lo + ((hi - lo) \div 4)
           m2 == lo + ((hi - lo) \div 2)
           m3 == lo + ((3 * (hi - lo)) \div 4)
           q1 == Run(st, code, lo, m1)
           q2 == Run(q1, code, m1 + 1, m2)
           q3 == Run(q2, code, m2 + 1, m3)
       IN CASE q1 = q1 /\ q2 = q2 /\ q3 = q3 -> Run(q3, code, m3 + 1, hi)

\* FeSqrtRatio selecting r_prime on flipped_sign_sqrt alone.
FeSqrtRatioFlippedOnly(st, u, v) ==
  LET s0 == [st EXCEPT !.reg = ("SQRT_M1" :> SQRT_M1) @@ @]
      code == [FeSqrtRatioCode(u, v) EXCEPT
                 ![17] = <<"|", "cond", "flipped_sign_sqrt", "flipped_sign_sqrt">>]
      s1 == Run(Locals(s0, {"a", "b", "c"}), code, 1, Len(code))
  IN [was_square |-> s1.int["was_square"], r |-> s1.reg["c"], ops |-> s1.ops,
      int |-> s1.int]

\* FeSqrtRatio returning as soon as the first comparison succeeds.
FeSqrtRatioEarlyExit(st, u, v) ==
  LET s0 == [st EXCEPT !.reg = ("SQRT_M1" :> SQRT_M1) @@ @]
      code == FeSqrtRatioCode(u, v)
      s1 == Run(Locals(s0, {"a", "b", "c"}), code, 1, 12)
      s2 == IF s1.int["correct_sign_sqrt"] = 1
            THEN Run(Assign(Assign(s1, "flipped_sign_sqrt", 0, ""),
                            "flipped_sign_sqrt_i", 0, ""),
                     code, 19, Len(code))
            ELSE Run(s1, code, 13, Len(code))
  IN [was_square |-> s2.int["was_square"], r |-> s2.reg["c"], ops |-> s2.ops,
      int |-> s2.int]

\* FeSqrtRatio(u, v): (was_square, r) and the operations executed.
FeSqrtRatio(st, u, v) ==
  LET s0 == [st EXCEPT !.reg = ("SQRT_M1" :> SQRT_M1) @@ @]
      code == FeSqrtRatioCode(u, v)
      s1 == Run(Locals(s0, {"a", "b", "c"}), code, 1, Len(code))
  IN [was_square |-> s1.int["was_square"], r |-> s1.reg["c"], ops |-> s1.ops,
      int |-> s1.int]

\* ------------------------------------------------ package ristretto255
\* The curve constant d = -121665/121666 of the group kernel.
D == ToLimbs(CHOOSE x \in 0..(P - 1) : (x * (121666 % P) + 121665) % P = 0)
\* The package's constants, by the equations that define their decimals:
\* sqrtM1^2 = -1 (the even root), sqrtADMinusOne^2 = -d - 1 (the odd root),
\* oneMinusDSQ = 1 - d^2, dMinusOneSQ = (d - 1)^2.
sqrtM1 == ToLimbs(CHOOSE x \in 0..(P - 1) : (x * x) % P = P - 1 /\ x % 2 = 0)
sqrtADMinusOne ==
  ToLimbs(CHOOSE x \in 0..(P - 1) :
            (x * x + Canon(D) + 1) % P = 0 /\ x % 2 = 1)
oneMinusDSQ == FeSub(FeOne, FeSquare(D))
dMinusOneSQ == FeSquare(FeSub(D, FeOne))

\* The package-level values a function body can name.
Globals ==
  [sqrtM1 |-> sqrtM1, sqrtADMinusOne |-> sqrtADMinusOne,
   oneMinusDSQ |-> oneMinusDSQ, dMinusOneSQ |-> dMinusOneSQ, D |-> D]

\* group.ExtendedGroupElement: the storage of its four coordinates, and its
\* value read from a frame.
Coords(p) == {p \o ".X", p \o ".Y", p \o ".Z", p \o ".T"}
Point(st, p) ==
  [X |-> st.reg[p \o ".X"], Y |-> st.reg[p \o ".Y"],
   Z |-> st.reg[p \o ".Z"], T |-> st.reg[p \o ".T"]]
ZeroPoint == [X |-> FeZero, Y |-> FeZero, Z |-> FeZero, T |-> FeZero]

\* The group kernel's Add: extended twisted-Edwards addition, a = -1.
Add(p1, p2) ==
  LET A == FeMul(FeSub(p1.Y, p1.X), FeSub(p2.Y, p2.X))
      B == FeMul(FeAdd(p1.Y, p1.X), FeAdd(p2.Y, p2.X))
      C == FeMul(FeMul(p1.T, FeAdd(D, D)), p2.T)
      DD == FeMul(FeAdd(p1.Z, p1.Z), p2.Z)
      E == FeSub(B, A)
      F == FeSub(DD, C)
      G == FeAdd(DD, C)
      H == FeAdd(B, A)
  IN [X |-> FeMul(E, F), Y |-> FeMul(G, H), Z |-> FeMul(F, G), T |-> FeMul(E, H)]

\* Equal with the two comparisons combined by & for |.
EqualAnd(e, ee) ==
  LET f0 == FeMul(e.r.X, ee.r.Y)
      f1 == FeMul(e.r.Y, ee.r.X)
      out == FeEqual(f0, f1)
      g0 == FeMul(e.r.Y, ee.r.Y)
      g1 == FeMul(e.r.X, ee.r.X)
  IN And(out, FeEqual(g0, g1))

\* Equal returns 1 if e is equivalent to ee, and 0 otherwise.
Equal(e, ee) ==
  LET f0 == FeMul(e.r.X, ee.r.Y)
      f1 == FeMul(e.r.Y, ee.r.X)
      out == FeEqual(f0, f1)
      g0 == FeMul(e.r.Y, ee.r.Y)
      g1 == FeMul(e.r.X, ee.r.X)
  IN Or(out, FeEqual(g0, g1))

\* The body of mapToPoint(out, t), statement by statement.
mapToPointCode(out, t) ==
  << <<"FeSquare", "r", t>>,
     <<"FeMul", "r", "r", "sqrtM1">>,
     <<"FeOne", "one">>,
     <<"FeNeg", "minusOne", "one">>,
     <<"FeAdd", "u", "r", "one">>,
     <<"FeMul", "u", "u", "oneMinusDSQ">>,
     <<"FeAdd", "rPlusD", "r", "D">>,
     <<"FeMul", "v", "r", "D">>,
     <<"FeSub", "v", "minusOne", "v">>,
     <<"FeMul", "v", "v", "rPlusD">>,
     <<"feSqrtRatio", "wasSquare", "s", "u", "v">>,
     <<"FeMul", "sPrime", "s", t>>,
     <<"FeAbs", "sPrime", "sPrime">>,
     <<"FeNeg", "sPrime", "sPrime">>,
     <<"FeSelect", "s", "s", "sPrime", "wasSquare">>,
     <<"FeSelect", "c", "minusOne", "r", "wasSquare">>,
     <<"FeSub", "N", "r", "one">>,
     <<"FeMul", "N", "N", "c">>,
     <<"FeMul", "N", "N", "dMinusOneSQ">>,
     <<"FeSub", "N", "N", "v">>,
     <<"FeSquare", "sSquare", "s">>,
     <<"FeMul", "w0", "s", "v">>,
     <<"FeAdd", "w0", "w0", "w0">>,
     <<"FeMul", "w1", "N", "sqrtADMinusOne">>,
     <<"FeSub", "w2", "one", "sSquare">>,
     <<"FeAdd", "w3", "one", "sSquare">>,
     <<"FeMul", out \o ".X", "w0", "w3">>,
     <<"FeMul", out \o ".Y", "w2", "w1">>,
     <<"FeMul", out \o ".Z", "w1", "w3">>,
     <<"FeMul", out \o ".T", "w0", "w2">> >>

\* The field elements mapToPoint allocates.
mapToPointLocals ==
  {"r", "one", "minusOne", "u", "rPlusD", "v", "s", "sPrime", "c", "N",
   "sSquare", "w0", "w1", "w2", "w3"}

\* mapToPoint(out, t) as it ends, its locals and wasSquare still in scope.
mapToPointBody(st, out, t) ==
  LET code == mapToPointCode(out, t)
      s0 == [st EXCEPT !.reg = Globals @@ @]
  IN Run(Locals(s0, mapToPointLocals), code, 1, Len(code))

\* mapToPoint with its last statement FeMul(&out.T, w0, w3).
mapToPointWrongT(st, out, t) ==
  LET f == mapToPointBody(st, out, t)
  IN Return([f EXCEPT !.reg[out \o ".T"] = FeMul(f.reg["w0"], f.reg["w3"])], st)

mapToPoint(st, out, t) == Return(mapToPointBody(st, out, t), st)

\* mapToPoint on a fresh &group.ExtendedGroupElement{}, for each decoded t.
MapFrame(t) == Frame([n \in Coords("p") |-> FeZero] @@ [t |-> t])
mapToPointOf == [t \in FeReps |-> Point(mapToPoint(MapFrame(t), "p", "t"), "p")]

\* copy(buf[:], src): the first min(32, len(src)) bytes of buf are overwritten.
copy(buf, from) == [i \in 1..32 |-> IF i <= Len(from) THEN from[i] ELSE buf[i]]
\* b[lo:hi] with 0-based lo and exclusive hi.
Slice(b, lo, hi) == SubSeq(b, lo + 1, hi)

\* FromUniformBytes with the length check len(b) < 64.
FromUniformBytesShort(b) ==
  IF Len(b) < 64
  THEN [panicked |-> TRUE, wrote |-> FALSE, r |-> ZeroPoint, ops |-> <<>>]
  ELSE LET buf0 == [i \in 1..32 |-> 0]
           buf1 == copy(buf0, Slice(b, 0, 32))
           p1 == mapToPointOf[FeFromBytes(buf1)]
           buf2 == copy(buf1, Slice(b, 32, Len(b)))
           p2 == mapToPointOf[FeFromBytes(buf2)]
       IN [panicked |-> FALSE, wrote |-> TRUE, r |-> Add(p1, p2),
           ops |-> <<"copy", "FeFromBytes", "mapToPoint",
                     "copy", "FeFromBytes", "mapToPoint", "Add">>]

\* FromUniformBytes with the second copy taking b[:32] again.
FromUniformBytesFirstHalf(b) ==
  IF Len(b) # 64
  THEN [panicked |-> TRUE, wrote |-> FALSE, r |-> ZeroPoint, ops |-> <<>>]
  ELSE LET buf0 == [i \in 1..32 |-> 0]
           buf1 == copy(buf0, Slice(b, 0, 32))
           p1 == mapToPointOf[FeFromBytes(buf1)]
           buf2 == copy(buf1, Slice(b, 0, 32))
           p2 == mapToPointOf[FeFromBytes(buf2)]
       IN [panicked |-> FALSE, wrote |-> TRUE, r |-> Add(p1, p2),
           ops |-> <<"copy", "FeFromBytes", "mapToPoint",
                     "copy", "FeFromBytes", "mapToPoint", "Add">>]

\* e.FromUniformBytes(b): whether the call panicked, whether it wrote e.r and
\* what it wrote there, and the steps it took.  e is named only as the target
\* of the final Add.
FromUniformBytes(b) ==
  IF Len(b) # 64
  THEN [panicked |-> TRUE, wrote |-> FALSE, r |-> ZeroPoint, ops |-> <<>>]
  ELSE LET buf0 == [i \in 1..32 |-> 0]
           buf1 == copy(buf0, Slice(b, 0, 32))
           p1 == mapToPointOf[FeFromBytes(buf1)]
           buf2 == copy(buf1, Slice(b, 32, Len(b)))
           p2 == mapToPointOf[FeFromBytes(buf2)]
       IN [panicked |-> FALSE, wrote |-> TRUE, r |-> Add(p1, p2),
           ops |-> <<"copy", "FeFromBytes", "mapToPoint",
                     "copy", "FeFromBytes", "mapToPoint", "Add">>]

\* ------------------------------------------------------------- state
VARIABLES
  mem0,   \* field harness: the caller's field elements as first drawn
  mem,    \* field harness: the caller's field elements now
  call,   \* the last call made: its name, arguments and results
  els,    \* element harness: the caller's Elements
  src     \* element harness: the input each Element was last set from

vars == <<mem0, mem, call, els, src>>

NoCall == [op |-> "none"]
Unused == <<>>

\* ------------------------------------------- callers of fe.go
\* Limb vectors with bits above the limb width set, besides the reduced ones:
\* FeSelect takes any five words.
WideVecs == {[i \in Limbs |-> (w * i) % WordMod] : w \in Words}
FeVecs == FeReps \cup WideVecs

Names == {"x", "y", "out"}

InitField ==
  /\ mem0 \in {[x |-> a, y |-> b, out |-> FeZero] : a \in FeVecs, b \in FeVecs}
  /\ mem = mem0
  /\ call = NoCall
  /\ els = Unused /\ src = Unused

CallFeSelect(out, v, u, cond) ==
  /\ call.op = "none"
  /\ mem' = FeSelect(Frame(mem), out, v, u, cond).reg
  /\ call' = [op |-> "FeSelect", out |-> out, v |-> v, u |-> u, cond |-> cond]
  /\ UNCHANGED <<mem0, els, src>>

CallFeAbs(out, u) ==
  /\ call.op = "none"
  /\ mem[u] \in FeReps
  /\ mem' = FeAbs(Frame(mem), out, u).reg
  /\ call' = [op |-> "FeAbs", out |-> out, u |-> u]
  /\ UNCHANGED <<mem0, els, src>>

CallFeSqrtRatio(u, v) ==
  /\ call.op = "none"
  /\ mem[u] \in FeReps /\ mem[v] \in FeReps
  /\ call' = [op |-> "FeSqrtRatio", u |-> u, v |-> v]
               @@ FeSqrtRatio(Frame(mem), u, v)
  /\ UNCHANGED <<mem0, mem, els, src>>

NextField ==
  \/ \E out \in Names, v \in {"x", "y"}, u \in {"x", "y"}, cond \in {0, 1} :
       CallFeSelect(out, v, u, cond)
  \/ \E out \in Names, u \in {"x", "y"} : CallFeAbs(out, u)
  \/ CallFeSqrtRatio("x", "y")

SpecField == InitField /\ [][NextField]_vars

\* ------------------------------------------- callers of mapToPoint
\* Two points p1, p2, as FromUniformBytes allocates them, and one t.
InitMap ==
  /\ mem0 \in {[n \in Coords("p1") \cup Coords("p2") |-> FeZero] @@ [t |-> t] :
                 t \in FeReps}
  /\ mem = mem0
  /\ call = NoCall
  /\ els = Unused /\ src = Unused

CallMapToPoint(out, t) ==
  /\ mem' = mapToPoint(Frame(mem), out, t).reg
  /\ call' = [op |-> "mapToPoint", out |-> out, t |-> t,
              wasSquare |-> mapToPointBody(Frame(mem), out, t).int["wasSquare"]]
  /\ UNCHANGED <<mem0, els, src>>

NextMap == \E out \in {"p1", "p2"} : CallMapToPoint(out, "t")

SpecMap == InitMap /\ [][NextMap]_vars

\* ------------------------------------------- callers of FromUniformBytes
Slots == {"e1", "e2", "e3"}
\* The lengths other than 64 the callers pass.
BadLens == {0, 63, 65, 128}
\* An input of n bytes: byte 0 is x, byte 32 is y, the others are 0.
Bytes(n, x, y) == [i \in 1..n |-> IF i = 1 THEN x ELSE IF i = 33 THEN y ELSE 0]
GoodInputs == {Bytes(64, x, y) : x \in 0..MaxByte, y \in 0..MaxByte}
BadInputs == {Bytes(n, 1, 1) : n \in BadLens}

\* Every Element starts as Go's zero value.
InitElement ==
  /\ els = [s \in Slots |-> [r |-> ZeroPoint]]
  /\ src = [s \in Slots |-> <<>>]
  /\ call = NoCall
  /\ mem0 = Unused /\ mem = Unused

\* FromUniformBytes on each input the callers pass.
FromUniformBytesOf == [b \in GoodInputs \cup BadInputs |-> FromUniformBytes(b)]

\* e.FromUniformBytes(b); a panic is recovered by the caller.  The callers pass
\* a 64-byte input only to an Element not set before.
CallFromUniformBytes(e, b) ==
  /\ src[e] = <<>> \/ b \in BadInputs
  /\ els' = IF FromUniformBytesOf[b].wrote
            THEN [els EXCEPT ![e].r = FromUniformBytesOf[b].r]
            ELSE els
  /\ src' = IF FromUniformBytesOf[b].panicked THEN src
            ELSE [src EXCEPT ![e] = b]
  /\ call' = [op |-> "FromUniformBytes", e |-> e, len |-> Len(b),
              panicked |-> FromUniformBytesOf[b].panicked,
              ops |-> FromUniformBytesOf[b].ops]
  /\ UNCHANGED <<mem0, mem>>

NextElement ==
  \E e \in Slots, b \in GoodInputs \cup BadInputs : CallFromUniformBytes(e, b)

SpecElement == InitElement /\ [][NextElement]_vars

\* ------------------------------------------- callers of Equal
\* The points of the curve -x^2 + y^2 = 1 + d*x^2*y^2, in extended coordinates
\* with Z = 1.
OnCurve(x, y) ==
  (P * P - x * x + y * y) % P = (1 + Canon(D) * x * x * y * y) % P
CurvePoints ==
  {[X |-> ToLimbs(xy[1]), Y |-> ToLimbs(xy[2]), Z |-> FeOne,
    T |-> ToLimbs((xy[1] * xy[2]) % P)] :
     xy \in {xy \in (0..(P - 1)) \X (0..(P - 1)) : OnCurve(xy[1], xy[2])}}

\* Another representative of the same point: every coordinate times k.
Scale(p, k) ==
  [X |-> FeMul(p.X, ToLimbs(k)), Y |-> FeMul(p.Y, ToLimbs(k)),
   Z |-> FeMul(p.Z, ToLimbs(k)), T |-> FeMul(p.T, ToLimbs(k))]

InitEqual ==
  /\ els \in [{"e", "ee"} -> {[r |-> p] : p \in CurvePoints}]
  /\ src = [e \in {"e", "ee"} |-> 0]
  /\ call = NoCall
  /\ mem0 = Unused /\ mem = Unused

\* The same point in other coordinates, as the group kernel may hand it back:
\* the coordinates drawn first times k (src records k).
Rescale(e, k) ==
  /\ src[e] = 0
  /\ els' = [els EXCEPT ![e].r = Scale(@, k)]
  /\ src' = [src EXCEPT ![e] = k]
  /\ UNCHANGED <<mem0, mem, call>>

CallEqual(e, ee) ==
  /\ call' = [op |-> "Equal", e |-> e, ee |-> ee, out |-> Equal(els[e], els[ee])]
  /\ UNCHANGED <<mem0, mem, els, src>>

NextEqual ==
  \/ \E e \in {"e", "ee"}, k \in 1..MaxScalar : Rescale(e, k)
  \/ \E e \in {"e", "ee"}, ee \in {"e", "ee"} : CallEqual(e, ee)

SpecEqual == InitEqual /\ [][NextEqual]_vars

\* ------------------------------------------------- field-level claims
\* a = b in the field.
SameValue(a, b) == Canon(a) = Canon(b)
\* a is negative: its canonical value is odd.
Negative(a) == Canon(a) % 2 = 1
IsSquareRatio(u, v) == \E x \in 0..(P - 1) : (x * x * Canon(v)) % P = Canon(u)

\* C7: FeSelect leaves out equal to v when cond == 1 and to u when cond == 0,
\* limb for limb, whether out is the storage of v, of u, or of neither.
C7_SelectCorrect ==
  call.op = "FeSelect" =>
    \A i \in Limbs :
      mem[call.out][i] = IF call.cond = 1 THEN mem0[call.v][i] ELSE mem0[call.u][i]

\* C7 happens: out is v's storage, cond is 0, and u's limbs have bits above the
\* limb width that differ from v's.
C7_Witness ==
  /\ call.op = "FeSelect" /\ call.out = call.v /\ call.u # call.v /\ call.cond = 0
  /\ mem0[call.u] \notin FeReps
  /\ \A i \in Limbs : mem0[call.u][i] # mem0[call.v][i]

\* C8: FeAbs(u) is nonnegative, is u when u is nonnegative and -u when u is
\* negative, and FeAbs of it is the same field value again; also when out is u.
C8_AbsIdempotent ==
  call.op = "FeAbs" =>
    LET a == mem[call.out]
        u == mem0[call.u]
        again == FeAbs(Frame(mem), call.out, call.out).reg[call.out]
    IN /\ ~Negative(a)
       /\ (~Negative(u) => a = u)
       /\ (Negative(u) => (Canon(a) + Canon(u)) % P = 0)
       /\ SameValue(again, a)

\* C8 happens: out is u's storage and u is negative in a representation that is
\* not canonical and whose low limb bit is 0.
C8_Witness ==
  /\ call.op = "FeAbs" /\ call.out = call.u
  /\ Negative(mem0[call.u])
  /\ Val(mem0[call.u]) >= P /\ mem0[call.u][1] = 0

\* C5: for v # 0 and nonnegative r, FeSqrtRatio(r^2 * v, v) is (1, r).
C5_SqrtRatioRoundTrip ==
  (call.op = "FeSqrtRatio") =>
    \A r \in FeReps :
      ( /\ ~Negative(r)
        /\ Canon(mem0[call.v]) # 0
        /\ Canon(mem0[call.u]) = (Canon(r) * Canon(r) * Canon(mem0[call.v])) % P )
      => /\ call.was_square = 1
         /\ SameValue(call.r, r)

\* C5 happens: u = r^2 * v with v # 0, r # 0 nonnegative, and the candidate
\* had the flipped sign (check = -u).
C5_Witness ==
  /\ call.op = "FeSqrtRatio"
  /\ Canon(mem0[call.v]) # 0
  /\ call.int["flipped_sign_sqrt"] = 1 /\ call.int["correct_sign_sqrt"] = 0
  /\ \E r \in FeReps :
       /\ ~Negative(r) /\ Canon(r) # 0
       /\ Canon(mem0[call.u]) = (Canon(r) * Canon(r) * Canon(mem0[call.v])) % P

\* C6: for v # 0 and u/v not a square, FeSqrtRatio(u, v) is (0, r) with r
\* nonnegative and r^2 * v = i * u.
C6_SqrtRatioNonSquare ==
  ( /\ call.op = "FeSqrtRatio"
    /\ Canon(mem0[call.v]) # 0
    /\ ~IsSquareRatio(mem0[call.u], mem0[call.v]) )
    => /\ call.was_square = 0
       /\ ~Negative(call.r)
       /\ (Canon(call.r) * Canon(call.r) * Canon(mem0[call.v])) % P
            = (Canon(SQRT_M1) * Canon(mem0[call.u])) % P

\* C6 happens: u/v is not a square and the candidate's check was -i*u, so the
\* result is i times the candidate.
C6_Witness ==
  /\ call.op = "FeSqrtRatio"
  /\ Canon(mem0[call.v]) # 0 /\ ~IsSquareRatio(mem0[call.u], mem0[call.v])
  /\ call.int["flipped_sign_sqrt_i"] = 1

\* The squaring runs of the chain and the multiplications that follow each.
ChainRuns == <<1, 2, 1, 5, 10, 20, 10, 50, 100, 50, 2>>
ChainMuls == <<0, 2, 1, 1, 1, 1, 1, 1, 1, 1, 1>>
Times(name, n) == [i \in 1..n |-> name]
RECURSIVE ChainOps(_)
ChainOps(j) ==
  IF j = 0 THEN <<>>
  ELSE ChainOps(j - 1) \o Times("FeSquare", ChainRuns[j]) \o Times("FeMul", ChainMuls[j])
SqrtRatioOps ==
  <<"FeSquare", "FeMul", "FeSquare", "FeMul", "FeMul", "FeMul">>
  \o ChainOps(Len(ChainRuns))
  \o <<"FeMul", "FeMul", "FeMul", "FeNeg", "FeEqual", "FeEqual", "FeMul",
       "FeEqual", "FeMul", "FeSelect", "FeNeg", "FeIsNegative", "FeSelect">>

\* C10: every run of FeSqrtRatio executes the same sequence of field operations:
\* the chain's squaring runs 1, 2, 1, 5, 10, 20, 10, 50, 100, 50, 2 with their
\* multiplications, and all three comparisons, whatever u and v are.
C10_SameOperations ==
  call.op = "FeSqrtRatio" =>
    /\ call.ops = SqrtRatioOps
    /\ Cardinality({i \in DOMAIN call.ops : call.ops[i] = "FeEqual"}) = 3

\* C10 happens: a run in which the first comparison already succeeded.
C10_Witness ==
  /\ call.op = "FeSqrtRatio"
  /\ call.int["correct_sign_sqrt"] = 1
  /\ Canon(mem0[call.u]) # 0

\* ----------------------------------------------- element-level claims
\* X1*Y2 = Y1*X2 or Y1*Y2 = X1*X2 in the field.
CrossEqual(p, q) ==
  \/ (Canon(p.X) * Canon(q.Y)) % P = (Canon(p.Y) * Canon(q.X)) % P
  \/ (Canon(p.Y) * Canon(q.Y)) % P = (Canon(p.X) * Canon(q.X)) % P

\* C1: Equal(e, ee) is 1 exactly when X1*Y2 = Y1*X2 or Y1*Y2 = X1*X2 in the
\* field, and 0 otherwise; the result obtained stays the result when either
\* operand's coordinates are replaced by a common nonzero multiple of them.
C1_EqualCrossMultiplication ==
  call.op = "Equal" =>
    /\ call.out = IF CrossEqual(els[call.e].r, els[call.ee].r) THEN 1 ELSE 0
    /\ call.out = Equal(els[call.e], els[call.ee])

\* C1 happens: Equal returned 1 for two different operands by the second
\* product pair alone, the operands carry different multiples, and a coordinate
\* is held in a representation that is not canonical.
C1_Witness ==
  /\ call.op = "Equal" /\ call.e # call.ee /\ call.out = 1
  /\ src[call.e] > 1 /\ src[call.ee] > 1 /\ src[call.e] # src[call.ee]
  /\ (Canon(els[call.e].r.X) * Canon(els[call.ee].r.Y)) % P
       # (Canon(els[call.e].r.Y) * Canon(els[call.ee].r.X)) % P
  /\ Val(els[call.e].r.X) >= P

\* The Elements FromUniformBytes has set.
Made == {s \in Slots : src[s] # <<>>}

\* FromUniformBytes has just returned normally.
JustMade == call.op = "FromUniformBytes" /\ ~call.panicked

IsPoint(p) ==
  LET x == Canon(p.X)
      y == Canon(p.Y)
      z == Canon(p.Z)
      t == Canon(p.T)
  IN /\ z # 0
     /\ (x * y) % P = (z * t) % P
     /\ (P * P - x * x + y * y) % P = (z * z + Canon(D) * t * t) % P

\* C3: a call with an input of any length but 64 panics, having taken no step,
\* and leaves every Element as it was; a call with a 64-byte input does not
\* panic and sets the receiver to a point.
C3_LengthRejected ==
  [][IF call'.len # 64
     THEN call'.panicked /\ call'.ops = <<>> /\ els' = els /\ src' = src
     ELSE ~call'.panicked /\ IsPoint(els'[call'.e].r)]_vars

\* C3 happens: a 65-byte input was passed to an Element set before, which still
\* holds the point it was set to.
C3_Witness ==
  /\ call.op = "FromUniformBytes" /\ call.len = 65 /\ call.panicked
  /\ call.e \in Made
  /\ els[call.e].r # ZeroPoint

\* The two points FromUniformBytes maps the halves of b to.
P1(b) == mapToPointOf[FeFromBytes(SubSeq(b, 1, 32))]
P2(b) == mapToPointOf[FeFromBytes(SubSeq(b, 33, 64))]

=============================================================================
